---- MODULE Spec2Model ----
(***************************************************************************)
(* Model of preprocess.py: the text normalizer (clean, split_hashtags),    *)
(* the feature encoder (text2mat), the Tweet Sequence (TweetIterator) and  *)
(* the Batch Aggregator (KerasIterator).                                   *)
(*                                                                         *)
(* A text is a sequence of one-character strings.  A regular expression    *)
(* is modelled by what it matches at a position (the end of the match,     *)
(* 0 for none) and re.sub / re.findall by the left-to-right scan of the    *)
(* non-overlapping matches, as Python's re module does them.               *)
(***************************************************************************)
EXTENDS Integers, Sequences, FiniteSets, TLC

VARIABLES
    source,   \* the in-memory list of texts the sequences read
    mlb,      \* the module-level Vocabulary Encoder: [loaded, classes]
    ti,       \* the TweetIterator instances: name -> record of fields
    ret,      \* the outcome of the last TweetIterator operation
    ki,       \* the KerasIterator: fields, generator position and locals
    tx,       \* the text-function harness: input, operation, outputs
    memo      \* the text functions on the tweets of the model, tabulated

vars == <<source, mlb, ti, ret, ki, tx, memo>>

----------------------------------------------------------------------------
(* Characters *)

ascii_lowercase ==
    <<"a","b","c","d","e","f","g","h","i","j","k","l","m",
      "n","o","p","q","r","s","t","u","v","w","x","y","z">>

ascii_uppercase ==
    <<"A","B","C","D","E","F","G","H","I","J","K","L","M",
      "N","O","P","Q","R","S","T","U","V","W","X","Y","Z">>

digits == <<"0","1","2","3","4","5","6","7","8","9">>

\* string.punctuation; the grave accent, which a TLA+ string cannot hold,
\* is written "grave"
punctuation ==
    <<"!","\"","#","$","%","&","'","(",")","*","+",",","-",".","/",":",
      ";","<","=",">","?","@","[","\\","]","^","_","grave","{","|","}","~">>

char_options == ascii_lowercase \o digits \o punctuation

Range(f) == {f[x] : x \in DOMAIN f}

char_options_set == Range(char_options)

\* \s of the re module, restricted to the whitespace the model writes
IsSpace(c) == c \in {" ", "\t", "\n"}

NonSpace(c) == ~IsSpace(c)

\* the class [0-9a-zA-Z]
alnum_set == Range(ascii_lowercase) \cup Range(ascii_uppercase) \cup Range(digits)

uppercase_set == Range(ascii_uppercase)

IsAlnum(c) == c \in alnum_set

\* \w
IsWord(c) == IsAlnum(c) \/ c = "_"

\* the class [^@0-9a-zA-Z]
IsNonCharacter(c) == ~(IsAlnum(c) \/ c = "@")

\* str.lower on one character
LowerChar(c) ==
    IF c \in uppercase_set
    THEN ascii_lowercase[CHOOSE i \in DOMAIN ascii_uppercase : ascii_uppercase[i] = c]
    ELSE c

lower(s) == [i \in DOMAIN s |-> LowerChar(s[i])]

\* str.strip
strip(s) ==
    IF \A i \in DOMAIN s : IsSpace(s[i]) THEN <<>>
    ELSE LET a == CHOOSE i \in DOMAIN s :
                    NonSpace(s[i]) /\ \A j \in 1..(i-1) : IsSpace(s[j])
             b == CHOOSE i \in DOMAIN s :
                    NonSpace(s[i]) /\ \A j \in (i+1)..Len(s) : IsSpace(s[j])
         IN SubSeq(s, a, b)

----------------------------------------------------------------------------
(* Regular expressions *)

\* the character classes of the regular expressions
InClass(cls, c) ==
    CASE cls = "w"  -> IsWord(c)
      [] cls = "S"  -> NonSpace(c)
      [] cls = "s"  -> IsSpace(c)
      [] cls = "[^@0-9a-zA-Z]" -> IsNonCharacter(c)

\* the end (exclusive) of the longest run of characters of class cls from p
RunEnd(cls, s, p) ==
    CHOOSE q \in p..(Len(s)+1) :
        /\ \A k \in p..(q-1) : InClass(cls, s[k])
        /\ (q = Len(s)+1 \/ ~InClass(cls, s[q]))

\* the literal lit occurs in s at position p
HasAt(s, p, lit) ==
    /\ p >= 1
    /\ p + Len(lit) - 1 <= Len(s)
    /\ \A i \in 1..Len(lit) : s[p+i-1] = lit[i]

\* \A<lit> | \s<lit> at position p: the position after it, 0 for no match
Prefixed(lit, s, p) ==
    IF p = 1 /\ HasAt(s, 1, lit) THEN Len(lit) + 1
    ELSE IF IsSpace(s[p]) /\ HasAt(s, p+1, lit) THEN p + Len(lit) + 1
    ELSE 0

\* hashtag_regex = \A#\w+|\s#\w+ : the end of the match at p, 0 for none
hashtag_regex(s, p) ==
    LET q == Prefixed(<<"#">>, s, p) IN
    IF q > 0 /\ q <= Len(s) /\ IsWord(s[q]) THEN RunEnd("w", s, q) ELSE 0

\* mention_regex = \A@\w+|\s@\w+
mention_regex(s, p) ==
    LET q == Prefixed(<<"@">>, s, p) IN
    IF q > 0 /\ q <= Len(s) /\ IsWord(s[q]) THEN RunEnd("w", s, q) ELSE 0

\* url_regex = \Ahttp\S+|\shttp\S+
url_regex(s, p) ==
    LET q == Prefixed(<<"h","t","t","p">>, s, p) IN
    IF q > 0 /\ q <= Len(s) /\ NonSpace(s[q]) THEN RunEnd("S", s, q) ELSE 0

\* retweet_regex = \Art\s|\srt\s
retweet_regex(s, p) ==
    IF p = 1 /\ HasAt(s, 1, <<"r","t">>) /\ 3 <= Len(s) /\ IsSpace(s[3]) THEN 4
    ELSE IF IsSpace(s[p]) /\ HasAt(s, p+1, <<"r","t">>)
            /\ p+3 <= Len(s) /\ IsSpace(s[p+3]) THEN p+4
    ELSE 0

\* noncharacter_regex = [^@0-9a-zA-Z]+
noncharacter_regex(s, p) ==
    IF IsNonCharacter(s[p]) THEN RunEnd("[^@0-9a-zA-Z]", s, p) ELSE 0

\* multspace_regex = \s+
multspace_regex(s, p) ==
    IF IsSpace(s[p]) THEN RunEnd("s", s, p) ELSE 0

\* email_regex = \S+@\S+.\S+ : greedy with backtracking.  A match from p is
\* first = s[p..k-1], "@" = s[k], second = s[k+1..m-1], "." = s[m] (any
\* character but a newline), third = s[m+1..e-1]; the engine returns the
\* match with the longest first, then the longest second, then the longest
\* third part.
EmailDots(s, k) ==
    {m \in (k+2)..(Len(s)-1) :
        /\ \A j \in (k+1)..(m-1) : NonSpace(s[j])
        /\ s[m] # "\n"
        /\ NonSpace(s[m+1])}

EmailAts(s, p) ==
    {k \in (p+1)..Len(s) :
        /\ s[k] = "@"
        /\ \A j \in p..(k-1) : NonSpace(s[j])
        /\ EmailDots(s, k) # {}}

SetMax(S) == CHOOSE x \in S : \A y \in S : y <= x

email_regex(s, p) ==
    IF EmailAts(s, p) = {} THEN 0
    ELSE LET k == SetMax(EmailAts(s, p))
             m == SetMax(EmailDots(s, k))
         IN RunEnd("S", s, m+1)

\* the compiled expressions by name
Match(rx, s, p) ==
    CASE rx = "hashtag_regex"      -> hashtag_regex(s, p)
      [] rx = "mention_regex"      -> mention_regex(s, p)
      [] rx = "email_regex"        -> email_regex(s, p)
      [] rx = "url_regex"          -> url_regex(s, p)
      [] rx = "retweet_regex"      -> retweet_regex(s, p)
      [] rx = "noncharacter_regex" -> noncharacter_regex(s, p)
      [] rx = "multspace_regex"    -> multspace_regex(s, p)

\* regex.sub(repl, s): scan from the left; a match is replaced and the scan
\* resumes at its end, so a character consumed by one match is never part
\* of the next
sub(rx, repl, s) ==
    LET scan[p \in 1..(Len(s)+1)] ==
            IF p > Len(s) THEN <<>>
            ELSE LET e == Match(rx, s, p) IN
                 IF e > 0 THEN repl \o scan[e]
                 ELSE <<s[p]>> \o scan[p+1]
    IN scan[1]

\* regex.findall(s): the matched substrings, left to right
findall(rx, s) ==
    LET scan[p \in 1..(Len(s)+1)] ==
            IF p > Len(s) THEN <<>>
            ELSE LET e == Match(rx, s, p) IN
                 IF e > 0 THEN <<SubSeq(s, p, e-1)>> \o scan[e]
                 ELSE scan[p+1]
    IN scan[1]

\* str.split(): the maximal runs of non-whitespace
split(s) ==
    LET scan[p \in 1..(Len(s)+1)] ==
            IF p > Len(s) THEN <<>>
            ELSE IF IsSpace(s[p]) THEN scan[p+1]
            ELSE LET e == RunEnd("S", s, p) IN
                 <<SubSeq(s, p, e-1)>> \o scan[e]
    IN scan[1]

----------------------------------------------------------------------------
(* Text normalizer *)

\* clean, step by step in the order of the source: t1 is the text after
\* the first assignment to tweet, t7 the text after the seventh.
\* (CHOOSE r \in {e : x \in {v}} : TRUE is e with x standing for v; it makes
\* TLC evaluate v once, however often e mentions x.)
clean(tweet) ==
    CHOOSE r \in {strip(t7) :
      t7 \in {sub("multspace_regex", <<" ">>, t6) :
      t6 \in {sub("retweet_regex", <<" ">>, t5) :
      t5 \in {sub("mention_regex", <<" ","@","u","s","e","r">>, t4) :
      t4 \in {sub("email_regex",
                  <<" ","e","m","a","i","l","@","a","d","d","r","e","s","s"," ">>, t3) :
      t3 \in {sub("noncharacter_regex", <<" ">>, t2) :
      t2 \in {sub("url_regex", <<" ","h","t","t","p","u","r","l">>, t1) :
      t1 \in {lower(tweet)}}}}}}}} : TRUE

\* split_hashtags on one text: [tweet, hashtags]
split_hashtags(tweet) ==
    CHOOSE r \in
      {[tweet |-> sub("hashtag_regex", <<>>, tweet),
        hashtags |-> SelectSeq(cleaned, LAMBDA h : h # <<"#">>)] :
       cleaned \in {[i \in DOMAIN found |-> <<"#">> \o clean(found[i])] :
       found \in {findall("hashtag_regex", tweet)}}} : TRUE

----------------------------------------------------------------------------
(* Feature encoder.  A numpy matrix is [shape, rows]: rows maps the index  *)
(* (from 0) of each row that is not all zero to that row, and a row maps   *)
(* the index (from 0) of each column that is not zero to its value.        *)

\* char_options.index(c)
c_pos(c) == (CHOOSE i \in DOMAIN char_options : char_options[i] = c) - 1

Min(a, b) == IF a <= b THEN a ELSE b

\* a loop without the break: every row of rows is written, room or not
Matrix_nobreak(nrows, ncols, rows) ==
    CHOOSE M \in
      {[shape |-> <<nrows, ncols>>,
        rows  |-> [i \in {k \in 0..(Len(r)-1) : r[k+1] # <<>>}
                     |-> r[i+1]]] : r \in {rows}} : TRUE

\* np.zeros((nrows, ncols)) with row i set to rows[i+1], while there is room
\* (if i >= nrows: break); zero rows are left out
Matrix(nrows, ncols, rows) ==
    CHOOSE M \in
      {[shape |-> <<nrows, ncols>>,
        rows  |-> [i \in {k \in 0..(Min(Len(r), nrows)-1) : r[k+1] # <<>>}
                     |-> r[i+1]]] : r \in {rows}} : TRUE

\* the embedding store of ./models/w2v, loaded once with the module and
\* never written: the words it knows and their vectors
w2v == [layer1_size |-> 2, vectors |-> (<<"a">> :> <<1, 2>>)]

\* word_d = w2v.layer1_size
word_d == w2v.layer1_size

\* the row of the chrd matrix for one word: occurrence counts
ChrdRow(word) ==
    [j \in {c_pos(word[k]) : k \in {x \in DOMAIN word : word[x] \in char_options_set}}
        |-> Cardinality({k \in DOMAIN word : word[k] = char_options[j+1]})]

\* the row of the word matrix for one word: its embedding, if known
WordRow(word) ==
    IF word \in DOMAIN w2v.vectors
    THEN [j \in {k \in 0..(word_d-1) : w2v.vectors[word][k+1] # 0}
            |-> w2v.vectors[word][j+1]]
    ELSE <<>>

text2mat(text0, mat_type, max_chars, max_words) ==
    CHOOSE M \in {
        CASE mat_type = "char" ->
                Matrix(max_chars, Len(char_options),
                       [i \in DOMAIN text |-> IF text[i] \in char_options_set
                                              THEN (c_pos(text[i]) :> 1) ELSE <<>>])
          [] mat_type = "word" ->
                CHOOSE W \in {Matrix(max_words, word_d,
                                     [i \in DOMAIN words |-> WordRow(words[i])]) :
                              words \in {split(clean(text))}} : TRUE
          [] mat_type = "chrd" ->
                CHOOSE C \in {Matrix(max_words, Len(char_options),
                                     [i \in DOMAIN words |-> ChrdRow(words[i])]) :
                              words \in {split(text)}} : TRUE
        : text \in {strip(lower(text0))}} : TRUE

\* the defaults of text2mat's parameters
max_chars_default == 140

max_words_default == 30

----------------------------------------------------------------------------
(* The tweets of the model *)

\* "#K a" : a hashtag the encoder knows, in upper case
TweetOk == <<"#","K"," ","a">>

\* "n" : no hashtag
TweetNone == <<"n">>

\* "#z " : a hashtag the encoder does not know, and a trailing blank
TweetZz == <<"#","z"," ">>

\* "#y" : a second hashtag the encoder knows, and no other text
TweetY == <<"#","y">>

Tweets == {TweetOk, TweetNone, TweetZz}

\* the tweets of the sources of a KerasIterator
KerasTweets == {TweetOk, TweetY, TweetNone}

\* The tweets of the model go through split_hashtags, clean and text2mat
\* again and again; their values on these tweets are computed once, when the
\* state is set up, and kept in memo.  AllTweets are the texts given to
\* split_hashtags, Stripped the texts it returns, which clean and text2mat
\* (with its default max_chars and max_words) are given
AllTweets == Tweets \cup KerasTweets

Stripped == {split_hashtags(t).tweet : t \in AllTweets}

MemoTables ==
    [split_hashtags |-> [t \in AllTweets |-> split_hashtags(t)],
     clean          |-> [t \in Stripped |-> clean(t)],
     text2mat       |-> [a \in Stripped \X {"char", "chrd", "word"} |->
                           text2mat(a[1], a[2], max_chars_default, max_words_default)]]

split_hashtags_memo(text) == memo.split_hashtags[text]

clean_memo(text) == memo.clean[text]

text2mat_memo(text, mat_type) == memo.text2mat[<<text, mat_type>>]

----------------------------------------------------------------------------
(* Module-level state *)

\* valid_hashtags = set(mlb.classes_) when the encoder was loaded, else set()
valid_hashtags == IF mlb.loaded THEN Range(mlb.classes_) ELSE {}

\* mlb.transform([hashtags]): one binary row in the order of mlb.classes_
mlb_transform(hashtags) ==
    Matrix(1, Len(mlb.classes_),
           << [j \in {k \in 0..(Len(mlb.classes_)-1) :
                         mlb.classes_[k+1] \in Range(hashtags)} |-> 1] >>)

\* utils.countLines(source), for a list source: its number of elements
countLines(src) == Len(src)

----------------------------------------------------------------------------
(* TweetIterator *)

yw_options ==
    {"hashtags", "raw_tweet", "raw_tweet_nohashtags", "tokenized_tweet",
     "clean_tweet", "word_mat", "char_mat", "chrd_mat", "label"}

\* __init__: the requested names that are options, in the order requested
InitYieldList(requested) == SelectSeq(requested, LAMBDA yw : yw \in yw_options)

\* one branch of the if/elif chain of yield_
Field(yw, text, tweet, hashtags) ==
    CASE yw = "hashtags"             -> hashtags
      [] yw = "raw_tweet"            -> strip(text)
      [] yw = "raw_tweet_nohashtags" -> tweet
      [] yw = "clean_tweet"          -> clean_memo(tweet)
      [] yw = "tokenized_tweet"      -> split(clean_memo(tweet))
      [] yw = "word_mat"             -> text2mat_memo(tweet, "word")
      [] yw = "char_mat"             -> text2mat_memo(tweet, "char")
      [] yw = "chrd_mat"             -> text2mat_memo(tweet, "chrd")
      [] yw = "label"                -> mlb_transform(hashtags)

\* the hashtags yield_ keeps: those of valid_hashtags when it is not empty
FilterHashtags(hashtags) ==
    IF valid_hashtags # {}
    THEN SelectSeq(hashtags, LAMBDA h : h \in valid_hashtags)
    ELSE hashtags

\* a yield_ that walks the options in one fixed order, whatever the request
FieldOrder_fixed(yield_list) ==
    SelectSeq(<<"hashtags", "raw_tweet", "raw_tweet_nohashtags",
                "tokenized_tweet", "clean_tweet", "word_mat", "char_mat",
                "chrd_mat", "label">>,
              LAMBDA yw : yw \in Range(yield_list))

\* the order in which yield_ walks the fields: for yw in self.yield_list
FieldOrder(yield_list) == yield_list

\* yield_: the list out, or the NameError of reading the unbound name mlb
yield_(skip_nohashtag, yield_list, text) ==
    CHOOSE r \in {
        IF Len(hashtags) = 0 /\ skip_nohashtag
            THEN [raised |-> "none", out |-> <<>>]
        ELSE IF "label" \in Range(order) /\ ~mlb.loaded
            THEN [raised |-> "NameError", out |-> <<>>]
        ELSE [raised |-> "none",
              out |-> [k \in DOMAIN order |->
                         Field(order[k], text, sh.tweet, hashtags)]]
        : sh \in {split_hashtags_memo(text)},
          hashtags \in {FilterHashtags(split_hashtags_memo(text).hashtags)},
          order \in {FieldOrder(yield_list)}} : TRUE

\* the generator of __iter__ over a list source, resumed with pos the index
\* of the next element of source: the value it yields next, or how it ends
RECURSIVE GenNext(_, _, _)
GenNext(skip_nohashtag, yield_list, pos) ==
    IF pos > Len(source)
        THEN [kind |-> "StopIteration", val |-> <<>>, pos |-> pos]
    ELSE CHOOSE r \in {
             IF yw.raised # "none"
                 THEN [kind |-> yw.raised, val |-> <<>>, pos |-> pos]
             ELSE IF Len(yw.out) = 0
                 THEN GenNext(skip_nohashtag, yield_list, pos + 1)
             ELSE [kind |-> "value",
                   val  |-> IF Len(yw.out) = 1 THEN yw.out[1] ELSE yw.out,
                   pos  |-> pos + 1]
             : yw \in {yield_(skip_nohashtag, yield_list, source[pos])}} : TRUE

\* a whole loop over a fresh generator: the values yielded and how it ended
RECURSIVE Collect(_, _, _)
Collect(skip_nohashtag, yield_list, pos) ==
    CHOOSE r \in {
        IF g.kind = "value"
        THEN CHOOSE c \in {[kind |-> rest.kind, vals |-> <<g.val>> \o rest.vals] :
                           rest \in {Collect(skip_nohashtag, yield_list, g.pos)}} : TRUE
        ELSE [kind |-> g.kind, vals |-> <<>>]
        : g \in {GenNext(skip_nohashtag, yield_list, pos)}} : TRUE

\* self.length = False: the length is not computed yet.  The code tests
\* "self.length is False", which no integer satisfies, 0 included
length_False == -1

\* a test "if not self.length", which a stored length of 0 satisfies too
len_computes_falsy(self) == self.length = length_False \/ self.length = 0

\* if self.length is False: __len__ has to compute the length
len_computes(self) == self.length = length_False

\* a __len__ that counts the lines of the source whatever the skip flag
len_lines(self) ==
    IF self.length = length_False THEN countLines(source) ELSE self.length

\* __len__: the value it returns (and stores when self.length is False)
len_(self) ==
    IF len_computes(self)
    THEN IF self.skip_nohashtag
         THEN Len(Collect(TRUE, <<"hashtags">>, 1).vals)
         ELSE countLines(source)
    ELSE self.length

\* most computations of the length that are counted
MaxComputed == 2

\* the instance after a call of len(self): the length is stored; computed
\* counts the calls that computed the length, passes over the source included
WithLen(self) ==
    CHOOSE r \in {[self EXCEPT !.length = n,
                               !.computed = IF len_computes(self)
                                            THEN Min(self.computed + 1, MaxComputed)
                                            ELSE self.computed] :
                  n \in {len_(self)}} : TRUE

\* an __iter__ that hands out the generator the instance keeps in self.iter_
new_iter_resumed(self) == self.iter_

\* self.__iter__(): a new generator, not started, over the whole source
new_iter(self) == [pos |-> 1, done |-> FALSE]

\* the loop of __getitem__: next(iter_) while j <= i, from a fresh generator
RECURSIVE GetLoop(_, _, _, _)
GetLoop(self, pos, j, i) ==
    CHOOSE r \in {
        IF g.kind # "value" THEN [kind |-> g.kind, val |-> <<>>]
        ELSE IF j + 1 <= i THEN GetLoop(self, g.pos, j + 1, i)
        ELSE [kind |-> "value", val |-> g.val]
        : g \in {GenNext(self.skip_nohashtag, self.yield_list, pos)}} : TRUE

\* a __getitem__ that refuses only the indices above the length
getitem_above(self, i) ==
    CHOOSE r \in {
        IF i < 0 /\ n = 0 THEN [kind |-> "ZeroDivisionError", val |-> <<>>]
        ELSE IF i >= 0 /\ i > n THEN [kind |-> "IndexError", val |-> <<i, n>>]
        ELSE IF iter_.done THEN [kind |-> "StopIteration", val |-> <<>>]
        ELSE GetLoop(self, iter_.pos, 0, IF i < 0 THEN i % n ELSE i)
        : n \in {len_(self)}, iter_ \in {new_iter(self)}} : TRUE

\* __getitem__ with an integer index
getitem(self, i) ==
    CHOOSE r \in {
        IF i < 0 /\ n = 0 THEN [kind |-> "ZeroDivisionError", val |-> <<>>]
        ELSE IF i >= 0 /\ i >= n THEN [kind |-> "IndexError", val |-> <<i, n>>]
        ELSE IF iter_.done THEN [kind |-> "StopIteration", val |-> <<>>]
        ELSE GetLoop(self, iter_.pos, 0, IF i < 0 THEN i % n ELSE i)
        : n \in {len_(self)}, iter_ \in {new_iter(self)}} : TRUE

\* the first result of a list of results that is an exception, or the list
\* of their values: a list comprehension ends at the first exception
ListOf(results) ==
    IF \E k \in DOMAIN results : results[k].kind # "value"
    THEN [kind |-> results[CHOOSE k \in DOMAIN results :
                             /\ results[k].kind # "value"
                             /\ \A m \in 1..(k-1) : results[m].kind = "value"].kind,
          val |-> <<>>]
    ELSE [kind |-> "value", val |-> [k \in DOMAIN results |-> results[k].val]]

\* __getitem__ with slice(lo, hi), 0 <= lo and 0 <= hi:
\* [self[j] for j in range(*i.indices(len(self)))]
getslice(self, lo, hi) ==
    CHOOSE r \in {ListOf([k \in 1..(Min(hi, n) - Min(lo, n)) |->
                             getitem(self, Min(lo, n) + k - 1)])
                  : n \in {len_(self)}} : TRUE

\* a __getitem__ that keeps its generator in self.iter_
getitem_self_rewind(self, i) == [WithLen(self) EXCEPT !.iter_ = new_iter(self)]

\* the instance after seq[i] with an integer i: len(self) was called once
\* by the test of i, and once more for the message of an IndexError; the
\* generator that was read is a local one
getitem_self(self, i) ==
    IF i >= 0 /\ i >= len_(self) THEN WithLen(WithLen(self)) ELSE WithLen(self)

\* the instance after seq[lo:hi]: len(self) was called once for the range
\* and again by each self[j]
getslice_self(self, lo, hi) ==
    IF Min(lo, len_(self)) < Min(hi, len_(self))
    THEN WithLen(WithLen(self)) ELSE WithLen(self)

----------------------------------------------------------------------------
(* KerasIterator *)

\* __init__: the fields it requests of its TweetIterator
mat_types(char, chrd, word) ==
    (IF char THEN <<"char_mat">> ELSE <<>>)
        \o (IF chrd THEN <<"chrd_mat">> ELSE <<>>)
        \o (IF word THEN <<"word_mat">> ELSE <<>>)
        \o <<"label">>

\* outs[argout]: an element of the tuple a TweetIterator yields, or, when it
\* yields its single field alone, row argout of that 2-d array
outs_at(outs, argout, alone) ==
    IF alone
    THEN [shape |-> <<outs.shape[2]>>,
          row   |-> IF argout \in DOMAIN outs.rows THEN outs.rows[argout] ELSE <<>>]
    ELSE outs[argout + 1]

\* np.stack: the arrays along a new first axis
np_stack(arrays) ==
    [shape |-> <<Len(arrays)>> \o arrays[1].shape, items |-> arrays]

\* np.vstack: 1-d arrays and the rows of 1 x n arrays, one below the other
np_vstack(arrays) ==
    LET ncols(a) == a.shape[Len(a.shape)]
        row_of(a) == IF Len(a.shape) = 1 THEN a.row
                     ELSE IF 0 \in DOMAIN a.rows THEN a.rows[0] ELSE <<>>
    IN [shape |-> <<Len(arrays), ncols(arrays[1])>>,
        rows  |-> [k \in 0..(Len(arrays)-1) |-> row_of(arrays[k+1])]]

\* the body of "for outs in iter_" up to i += 1.  acc_pos is not of the
\* code: it records the positions in source of the items accumulated
Accumulate(self, outs, p) ==
    LET alone == Len(self.tweet_iterator.yield_list) = 1
        a1 == IF self.char THEN 1 ELSE 0
        a2 == a1 + (IF self.chrd THEN 1 ELSE 0)
        a3 == a2 + (IF self.word THEN 1 ELSE 0)
    IN [self EXCEPT
          !.output_charX = IF self.char THEN Append(@, outs_at(outs, 0, alone)) ELSE @,
          !.output_chrdX = IF self.chrd THEN Append(@, outs_at(outs, a1, alone)) ELSE @,
          !.output_wordX = IF self.word THEN Append(@, outs_at(outs, a2, alone)) ELSE @,
          !.output_y     = Append(@, outs_at(outs, a3, alone)),
          !.i            = @ + 1,
          !.acc_pos      = Append(@, p)]

\* the value of "yield out, output_y"
Batch(self) ==
    << (IF self.char THEN <<np_stack(self.output_charX)>> ELSE <<>>)
           \o (IF self.chrd THEN <<np_stack(self.output_chrdX)>> ELSE <<>>)
           \o (IF self.word THEN <<np_stack(self.output_wordX)>> ELSE <<>>),
       np_vstack(self.output_y) >>

\* the generator suspends at a yield: next() returns the batch.  batches is
\* not of the code: it records the batches of the pass and their positions
Yield(self, at) ==
    [self EXCEPT !.pc = at, !.pending = FALSE, !.kind = "value",
                 !.out = Batch(self),
                 !.batches = Append(@, [out |-> Batch(self), pos |-> self.acc_pos])]

\* a reset that forgets the counter and keeps the lists
Reset_counter(self) == [self EXCEPT !.i = 0]

\* the five assignments that follow each yield
Reset(self) ==
    [self EXCEPT !.output_charX = <<>>, !.output_chrdX = <<>>,
                 !.output_wordX = <<>>, !.output_y = <<>>,
                 !.i = 0, !.acc_pos = <<>>]

\* an end of pass that drops what is accumulated
PartialBatch_never(i) == FALSE

\* if i > 0: at the end of a pass something is accumulated
PartialBatch(i) == i > 0

----------------------------------------------------------------------------
(* The sources, encoders and requests the model draws from *)

\* the longest source list
MaxSrc == 3

\* the largest index given to __getitem__, in absolute value
MaxIndex == 3

Sources == UNION {[1..n -> Tweets] : n \in 0..MaxSrc}

\* the encoder of ./models/mlb.pickle, and the state without it
MlbLoaded == [loaded |-> TRUE, classes_ |-> << <<"#","k">>, <<"#","y">> >>]

MlbMissing == [loaded |-> FALSE, classes_ |-> <<>>]

\* the field lists requested of a TweetIterator
FieldLists ==
    { <<"bogus">>,
      <<"hashtags">>,
      <<"clean_tweet", "raw_tweet">>,
      <<"raw_tweet", "bogus", "clean_tweet">>,
      <<"tokenized_tweet", "raw_tweet_nohashtags", "hashtags">>,
      <<"label">>,
      <<"char_mat", "chrd_mat", "word_mat", "label">> }

Insts == {"s1"}

Unbuilt ==
    [built |-> FALSE, skip_nohashtag |-> FALSE, yield_list |-> <<>>,
     iter_ |-> [pos |-> 1, done |-> FALSE], length |-> length_False,
     computed |-> 0, nexts |-> 0]

NoRet == [op |-> "none", self |-> "none", arg |-> <<>>, kind |-> "none", val |-> <<>>]

\* no KerasIterator yet
KiIdle ==
    [pc |-> "idle", batch_size |-> 0, char |-> FALSE, chrd |-> FALSE,
     word |-> FALSE, tweet_iterator |-> Unbuilt, pos |-> 1,
     output_charX |-> <<>>, output_chrdX |-> <<>>, output_wordX |-> <<>>,
     output_y |-> <<>>, i |-> 0, pending |-> FALSE, kind |-> "none",
     out |-> <<>>, acc_pos |-> <<>>, batches |-> <<>>, first |-> <<>>,
     pass |-> 0]

TxIdle == [op |-> "idle"]

----------------------------------------------------------------------------
(* TweetIterator operations *)

\* attributes kept on the class: what one instance stores in iter_ and
\* length is what every instance reads
SetAttr_class(tis, s, self) ==
    [t \in DOMAIN tis |->
        IF t = s THEN self
        ELSE IF tis[t].built
             THEN [tis[t] EXCEPT !.iter_ = self.iter_, !.length = self.length]
             ELSE tis[t]]

\* self.<attribute> = ... : the attributes are those of the instance s
SetAttr(tis, s, self) == [tis EXCEPT ![s] = self]

\* TweetIterator(source, skip_nohashtag, *yield_list)
Construct(s, skip, requested) ==
    /\ ~ti[s].built
    /\ ti' = SetAttr(ti, s,
                [built          |-> TRUE,
                 skip_nohashtag |-> skip,
                 yield_list     |-> InitYieldList(requested),
                 iter_          |-> new_iter(ti[s]),
                 length         |-> length_False,
                 computed       |-> 0,
                 nexts          |-> 0])
    /\ ret' = [op |-> "init", self |-> s, arg |-> requested,
               kind |-> "value", val |-> <<>>]
    /\ UNCHANGED <<memo, source, mlb, ki, tx>>

\* next(seq): next(self.iter_); nexts counts the values it has returned
NextOp(s) ==
    /\ ti[s].built
    /\ \E self \in {ti[s]} :
       \E g \in {IF self.iter_.done
                  THEN [kind |-> "StopIteration", val |-> <<>>, pos |-> self.iter_.pos]
                  ELSE GenNext(self.skip_nohashtag, self.yield_list, self.iter_.pos)} :
          /\ ti' = SetAttr(ti, s,
                      [self EXCEPT !.iter_ = [pos |-> g.pos, done |-> g.kind # "value"],
                                   !.nexts = IF g.kind = "value" THEN @ + 1 ELSE @])
          /\ ret' = [op |-> "next", self |-> s, arg |-> <<>>,
                     kind |-> g.kind, val |-> g.val]
    /\ UNCHANGED <<memo, source, mlb, ki, tx>>

\* len(seq)
LenOp(s) ==
    /\ ti[s].built
    /\ \E n \in {len_(ti[s])} :
          /\ ti' = SetAttr(ti, s, WithLen(ti[s]))
          /\ ret' = [op |-> "len", self |-> s, arg |-> <<>>,
                     kind |-> "value", val |-> n]
    /\ UNCHANGED <<memo, source, mlb, ki, tx>>

\* seq[i] with an integer i
GetItem(s, i) ==
    /\ ti[s].built
    /\ \E r \in {getitem(ti[s], i)} :
          /\ ti' = SetAttr(ti, s, getitem_self(ti[s], i))
          /\ ret' = [op |-> "getitem", self |-> s, arg |-> i,
                     kind |-> r.kind, val |-> r.val]
    /\ UNCHANGED <<memo, source, mlb, ki, tx>>

\* seq[lo:hi]
GetSlice(s, lo, hi) ==
    /\ ti[s].built
    /\ \E r \in {getslice(ti[s], lo, hi)} :
          /\ ti' = SetAttr(ti, s, getslice_self(ti[s], lo, hi))
          /\ ret' = [op |-> "getslice", self |-> s, arg |-> <<lo, hi>>,
                     kind |-> r.kind, val |-> r.val]
    /\ UNCHANGED <<memo, source, mlb, ki, tx>>

\* seq.get_random(): i = np.random.choice(len(self)), any of 0..len-1, which
\* raises ValueError for a length of 0; then self[i]
GetRandom(s) ==
    /\ ti[s].built
    /\ \E n \in {len_(ti[s])} :
          /\ ti' = SetAttr(ti, s, WithLen(ti[s]))
          /\ IF n = 0
             THEN ret' = [op |-> "get_random", self |-> s, arg |-> 0,
                          kind |-> "ValueError", val |-> <<>>]
             ELSE \E i \in 0..(n-1) : \E r \in {getitem(ti[s], i)} :
                     ret' = [op |-> "get_random", self |-> s, arg |-> i,
                             kind |-> r.kind, val |-> r.val]
    /\ UNCHANGED <<memo, source, mlb, ki, tx>>

\* list(seq): a for loop over a fresh iter(seq), to its end
IterAll(s) ==
    /\ ti[s].built
    /\ \E iter_ \in {new_iter(ti[s])} :
       \E c \in {IF iter_.done THEN [kind |-> "StopIteration", vals |-> <<>>]
                  ELSE Collect(ti[s].skip_nohashtag, ti[s].yield_list, iter_.pos)} :
          ret' = [op |-> "iter", self |-> s, arg |-> <<>>,
                  kind |-> IF c.kind = "StopIteration" THEN "value" ELSE c.kind,
                  val |-> c.vals]
    /\ UNCHANGED <<memo, source, mlb, ki, tx, ti>>

Init ==
    /\ source \in Sources
    /\ mlb \in {MlbLoaded, MlbMissing}
    /\ ti = [s \in Insts |-> Unbuilt]
    /\ ret = NoRet
    /\ ki = KiIdle
    /\ tx = TxIdle
    /\ memo = MemoTables

Next ==
    \/ \E s \in Insts, skip \in BOOLEAN, requested \in FieldLists :
          Construct(s, skip, requested)
    \/ \E s \in Insts : NextOp(s)
    \/ \E s \in Insts : LenOp(s)
    \/ \E s \in Insts, i \in (-MaxIndex)..MaxIndex : GetItem(s, i)
    \/ \E s \in Insts : IterAll(s)

Spec == Init /\ [][Next]_vars

----------------------------------------------------------------------------
(* Every way of reading one TweetIterator: next, len, integer and slice
   indices, get_random and whole loops, in any order *)

\* the largest bound of a slice
MaxSlice == 2

\* the tweets, the sources and the field lists of these runs
AccessTweets == {TweetOk, TweetNone}

AccessSources == UNION {[1..n -> AccessTweets] : n \in 0..MaxSrc}

AccessFieldLists == { <<"bogus">>, <<"hashtags">>, <<"raw_tweet", "label">> }

InitAccess ==
    /\ source \in AccessSources
    /\ mlb \in {MlbLoaded, MlbMissing}
    /\ ti = [s \in Insts |-> Unbuilt]
    /\ ret = NoRet
    /\ ki = KiIdle
    /\ tx = TxIdle
    /\ memo = MemoTables

NextAccess ==
    \/ \E s \in Insts, skip \in BOOLEAN, requested \in AccessFieldLists :
          Construct(s, skip, requested)
    \/ \E s \in Insts : NextOp(s)
    \/ \E s \in Insts : LenOp(s)
    \/ \E s \in Insts, i \in (-MaxIndex)..MaxIndex : GetItem(s, i)
    \/ \E s \in Insts, lo \in 0..MaxSlice : \E hi \in lo..MaxSlice : GetSlice(s, lo, hi)
    \/ \E s \in Insts : GetRandom(s)
    \/ \E s \in Insts : IterAll(s)

SpecAccess == InitAccess /\ [][NextAccess]_vars

----------------------------------------------------------------------------
(* Two TweetIterators over one list: their operations in any order *)

\* the longest source list two instances share
MaxPairSrc == 2

PairInsts == {"s1", "s2"}

PairSources == UNION {[1..n -> AccessTweets] : n \in 0..MaxPairSrc}

PairFieldLists == { <<"hashtags">>, <<"raw_tweet", "label">> }

InitPair ==
    /\ source \in PairSources
    /\ mlb = MlbLoaded
    /\ ti = [s \in PairInsts |-> Unbuilt]
    /\ ret = NoRet
    /\ ki = KiIdle
    /\ tx = TxIdle
    /\ memo = MemoTables

NextPair ==
    \/ \E s \in PairInsts, skip \in BOOLEAN, requested \in PairFieldLists :
          Construct(s, skip, requested)
    \/ \E s \in PairInsts : NextOp(s)
    \/ \E s \in PairInsts : LenOp(s)
    \/ \E s \in PairInsts, i \in 0..MaxPairSrc : GetItem(s, i)

SpecPair == InitPair /\ [][NextPair]_vars

----------------------------------------------------------------------------
(* KerasIterator operations.  The generator of __iter__ runs, one step of its
   loops at a time, while a call of next() is pending *)

\* the largest batch_size
MaxBatch == 3

\* passes over the source are counted up to this number
MaxPass == 2

KerasSources == UNION {[1..n -> KerasTweets] : n \in 0..MaxSrc}

\* the (char, chrd, word) arguments
KerasFlags == {<<TRUE, TRUE, TRUE>>, <<FALSE, TRUE, FALSE>>, <<FALSE, FALSE, FALSE>>}

InitKeras ==
    /\ source \in KerasSources
    /\ mlb = MlbLoaded
    /\ ti = [s \in Insts |-> Unbuilt]
    /\ ret = NoRet
    /\ ki = KiIdle
    /\ tx = TxIdle
    /\ memo = MemoTables

\* KerasIterator(source, batch_size, char, chrd, word)
KConstruct(batch_size, char, chrd, word) ==
    /\ ki.pc = "idle"
    /\ ki' = [KiIdle EXCEPT
                 !.pc = "start", !.batch_size = batch_size,
                 !.char = char, !.chrd = chrd, !.word = word,
                 !.tweet_iterator =
                     [built |-> TRUE, skip_nohashtag |-> TRUE,
                      yield_list |-> InitYieldList(mat_types(char, chrd, word)),
                      iter_ |-> [pos |-> 1, done |-> FALSE],
                      length |-> length_False,
                      computed |-> 0, nexts |-> 0]]
    /\ UNCHANGED <<memo, source, mlb, ti, ret, tx>>

\* next(): next(self.iter_) resumes the generator, or finds it finished
KNext ==
    /\ ki.pc # "idle"
    /\ ~ki.pending
    /\ ki' = IF ki.pc = "dead"
             THEN [ki EXCEPT !.kind = "StopIteration", !.out = <<>>]
             ELSE [ki EXCEPT !.pending = TRUE, !.kind = "none", !.out = <<>>]
    /\ UNCHANGED <<memo, source, mlb, ti, ret, tx>>

\* the generator starts: the accumulators and the counter are created
KStart ==
    /\ ki.pc = "start" /\ ki.pending
    /\ ki' = [Reset(ki) EXCEPT !.pc = "outer"]
    /\ UNCHANGED <<memo, source, mlb, ti, ret, tx>>

\* for iter_ in self.iter: repeat() gives the TweetIterator once more, and
\* the inner for loop takes a fresh generator of it
KOuter ==
    /\ ki.pc = "outer" /\ ki.pending
    /\ ki' = [ki EXCEPT !.pc = "inner", !.pos = 1,
                        !.pass = IF @ < MaxPass THEN @ + 1 ELSE @,
                        !.first = IF ki.pass = 1 THEN ki.batches ELSE @,
                        !.batches = <<>>]
    /\ UNCHANGED <<memo, source, mlb, ti, ret, tx>>

\* for outs in iter_: one turn of the inner loop, or its end
KInner ==
    /\ ki.pc = "inner" /\ ki.pending
    /\ \E g \in {GenNext(ki.tweet_iterator.skip_nohashtag,
                           ki.tweet_iterator.yield_list, ki.pos)} :
          ki' = CASE g.kind = "value" ->
                      CHOOSE r \in {IF acc.i = acc.batch_size
                                    THEN Yield(acc, "yield_full") ELSE acc :
                          acc \in {[Accumulate(ki, g.val, g.pos - 1)
                                       EXCEPT !.pos = g.pos]}} : TRUE
                  [] g.kind = "StopIteration" -> [ki EXCEPT !.pc = "endpass"]
                  [] OTHER -> [ki EXCEPT !.pc = "dead", !.pending = FALSE,
                                         !.kind = g.kind]
    /\ UNCHANGED <<memo, source, mlb, ti, ret, tx>>

\* after the inner loop: the partial batch, if any
KEndPass ==
    /\ ki.pc = "endpass" /\ ki.pending
    /\ ki' = IF PartialBatch(ki.i) THEN Yield(ki, "yield_part")
             ELSE [ki EXCEPT !.pc = "outer"]
    /\ UNCHANGED <<memo, source, mlb, ti, ret, tx>>

\* the generator resumes after a yield
KResume ==
    /\ ki.pc \in {"yield_full", "yield_part"} /\ ki.pending
    /\ ki' = [Reset(ki) EXCEPT
                 !.pc = IF ki.pc = "yield_full" THEN "inner" ELSE "outer"]
    /\ UNCHANGED <<memo, source, mlb, ti, ret, tx>>

\* the steps of the generator
KRun == KStart \/ KOuter \/ KInner \/ KEndPass \/ KResume

NextKeras ==
    \/ \E b \in 1..MaxBatch, f \in KerasFlags : KConstruct(b, f[1], f[2], f[3])
    \/ KNext
    \/ KStart
    \/ KOuter
    \/ KInner
    \/ KEndPass
    \/ KResume

SpecKeras == InitKeras /\ [][NextKeras]_vars

\* a generator that was resumed runs to its next yield or to its end
FairSpecKeras == SpecKeras /\ WF_vars(KRun)

----------------------------------------------------------------------------
(* The text normalizer on its own: clean applied to a text, then to its result *)

\* the most pieces a text is made of
MaxPieces == 4

\* letters, digits, '@', 'http', 'rt', punctuation and whitespace
Pieces ==
    { <<"a">>, <<"1">>, <<"@">>, <<"h","t","t","p">>, <<"r","t">>, <<".">>, <<" ">> }

Texts ==
    LET upto[n \in 0..MaxPieces] ==
            IF n = 0 THEN {<<>>}
            ELSE upto[n-1] \cup {t \o p : t \in upto[n-1], p \in Pieces}
    IN upto[MaxPieces]

InitText ==
    /\ source = <<>>
    /\ mlb = MlbMissing
    /\ ti = [s \in Insts |-> Unbuilt]
    /\ ret = NoRet
    /\ ki = KiIdle
    /\ memo = MemoTables
    /\ tx \in {[op |-> "text", text |-> t, out |-> <<>>, again |-> <<>>] : t \in Texts}

\* out = clean(text)
Clean ==
    /\ tx.op = "text"
    /\ tx' = [tx EXCEPT !.op = "clean", !.out = clean(tx.text)]
    /\ UNCHANGED <<memo, source, mlb, ti, ret, ki>>

\* again = clean(out)
CleanAgain ==
    /\ tx.op = "clean"
    /\ tx' = [tx EXCEPT !.op = "clean clean", !.again = clean(tx.out)]
    /\ UNCHANGED <<memo, source, mlb, ti, ret, ki>>

NextText == Clean \/ CleanAgain

SpecText == InitText /\ [][NextText]_vars

----------------------------------------------------------------------------
(* The encoders on their own: text2mat and split_hashtags applied to a text *)

\* the most pieces a text given to the encoders is made of
MaxEncPieces == 4

\* the largest max_chars and max_words the encoders are called with
MaxChars == 2

MaxWords == 2

\* whitespace, a lowercase and an uppercase letter, '#', and '_' (a \w
\* character that is no letter or digit)
EncPieces == { <<" ">>, <<"a">>, <<"B">>, <<"#">>, <<"_">> }

EncTexts ==
    LET upto[n \in 0..MaxEncPieces] ==
            IF n = 0 THEN {<<>>}
            ELSE upto[n-1] \cup {t \o p : t \in upto[n-1], p \in EncPieces}
    IN upto[MaxEncPieces]

InitEncode ==
    /\ source = <<>>
    /\ mlb = MlbMissing
    /\ ti = [s \in Insts |-> Unbuilt]
    /\ ret = NoRet
    /\ ki = KiIdle
    /\ memo = MemoTables
    /\ tx \in {[op |-> "input", text |-> t, max_chars |-> mc, max_words |-> mw,
                out |-> <<>>] :
                t \in EncTexts, mc \in 1..MaxChars, mw \in 1..MaxWords}

\* out = text2mat(text, 'char', max_chars, max_words)
CharMat ==
    /\ tx.op = "input"
    /\ tx' = [tx EXCEPT !.op = "char",
                        !.out = text2mat(tx.text, "char", tx.max_chars, tx.max_words)]
    /\ UNCHANGED <<memo, source, mlb, ti, ret, ki>>

\* out = text2mat(text, 'chrd', max_chars, max_words)
ChrdMat ==
    /\ tx.op = "input"
    /\ tx' = [tx EXCEPT !.op = "chrd",
                        !.out = text2mat(tx.text, "chrd", tx.max_chars, tx.max_words)]
    /\ UNCHANGED <<memo, source, mlb, ti, ret, ki>>

\* out = text2mat(text, 'word', max_chars, max_words)
WordMat ==
    /\ tx.op = "input"
    /\ tx' = [tx EXCEPT !.op = "word",
                        !.out = text2mat(tx.text, "word", tx.max_chars, tx.max_words)]
    /\ UNCHANGED <<memo, source, mlb, ti, ret, ki>>

\* tweet, out = split_hashtags(text)
SplitHashtags ==
    /\ tx.op = "input"
    /\ tx' = [tx EXCEPT !.op = "split_hashtags",
                        !.out = split_hashtags(tx.text).hashtags]
    /\ UNCHANGED <<memo, source, mlb, ti, ret, ki>>

NextEncode == CharMat \/ ChrdMat \/ WordMat \/ SplitHashtags

SpecEncode == InitEncode /\ [][NextEncode]_vars

----------------------------------------------------------------------------
(* Properties *)

\* the item survives the skip filter: its hashtag list, restricted to the
\* hashtags the encoder knows when one is configured, is not empty
Qualifies(text) == FilterHashtags(split_hashtags_memo(text).hashtags) # <<>>

\* the source items a sequence with this skip flag does not skip, in order
Kept(skip) == SelectSeq(source, LAMBDA t : ~skip \/ Qualifies(t))

\* the value of one item: its fields in the given order, alone when single
ValueOf(order, text) ==
    LET sh  == split_hashtags_memo(text)
        out == [k \in DOMAIN order |->
                  Field(order[k], text, sh.tweet, FilterHashtags(sh.hashtags))]
    IN IF Len(out) = 1 THEN out[1] ELSE out

\* the kind of Python value a field is
FieldType(yw) ==
    CASE yw \in {"hashtags", "tokenized_tweet"} -> "list of str"
      [] yw \in {"raw_tweet", "raw_tweet_nohashtags", "clean_tweet"} -> "str"
      [] OTHER -> "ndarray"

\* the fixed field order of the specification
CanonicalFields ==
    <<"hashtags", "raw_tweet", "raw_tweet_nohashtags", "tokenized_tweet",
      "clean_tweet", "word_mat", "char_mat", "chrd_mat", "label">>

CanonicalOrder(yield_list) ==
    SelectSeq(CanonicalFields, LAMBDA yw : yw \in Range(yield_list))

\* the length the active strategy defines
LengthOf(self) ==
    IF self.skip_nohashtag THEN Len(Kept(TRUE)) ELSE Len(source)

\* C4: a fresh iteration of a sequence built with skip_nohashtag = TRUE yields
\* exactly one value per source item that survives the skip filter, in source
\* order, and nothing for the others; with skip_nohashtag = FALSE and at
\* least one valid field it yields one value per source item.
C4_SkipFilter ==
    \A s \in Insts :
        (ret.op = "iter" /\ ret.self = s
            /\ (ti[s].skip_nohashtag \/ Len(ti[s].yield_list) >= 1))
        => /\ ret.kind = "value"
           /\ Len(ret.val) = Len(Kept(ti[s].skip_nohashtag))
           /\ \A k \in DOMAIN ret.val :
                 ret.val[k] = ValueOf(ti[s].yield_list, Kept(ti[s].skip_nohashtag)[k])

\* C5: len() of a sequence with skip_nohashtag = TRUE is the number of source
\* items that survive the skip filter, and with skip_nohashtag = FALSE the
\* number of elements of the source.
C5_Length ==
    \A s \in Insts :
        (ret.op = "len" /\ ret.self = s)
        => /\ ret.kind = "value"
           /\ ret.val = LengthOf(ti[s])
           /\ ti[s].length = ret.val

\* a 3-element source, 2 of them with a recognized hashtag: len() is 2
C5_Witness ==
    /\ ret.op = "len" /\ ret.val = 2 /\ Len(source) = 3 /\ mlb.loaded
    /\ ti[ret.self].skip_nohashtag

\* C6: for a sequence of length L > 0, seq[i] with 0 <= i < L is the (i+1)-th
\* value of a fresh iteration, and seq[i] with i < 0 never fails and is the
\* element seq[i mod L].
C6_Indexing ==
    \A s \in Insts :
        (ret.op = "getitem" /\ ret.self = s /\ LengthOf(ti[s]) > 0
            /\ ret.arg < LengthOf(ti[s]))
        => LET fresh == Collect(ti[s].skip_nohashtag, ti[s].yield_list, 1).vals
               j     == IF ret.arg < 0 THEN ret.arg % LengthOf(ti[s]) ELSE ret.arg
           IN /\ ret.kind = "value"
              /\ j + 1 <= Len(fresh)
              /\ ret.val = fresh[j + 1]

\* C7: seq[i] with i >= len(seq) raises IndexError with i and the length, and
\* IndexError is raised by nothing else: not by iteration, not by next, not
\* by an index below the length.
C7_OutOfRange ==
    \A s \in Insts :
        /\ (ret.op = "getitem" /\ ret.self = s /\ ret.arg >= LengthOf(ti[s]))
            => (ret.kind = "IndexError" /\ ret.val = <<ret.arg, LengthOf(ti[s])>>)
        /\ (ret.kind = "IndexError" /\ ret.self = s)
            => (ret.op = "getitem" /\ ret.arg >= 0 /\ ret.arg >= LengthOf(ti[s]))

\* seq[2] on a sequence of length 2 was refused
C7_Witness ==
    /\ ret.op = "getitem" /\ ret.kind = "IndexError" /\ ret.val = <<2, 2>>

\* C8: with no Vocabulary Encoder, no sequence whose fields include label is
\* ever built, and no item production fails for the missing encoder.
C8_FailFast ==
    /\ \A s \in Insts :
          (ti[s].built /\ "label" \in Range(ti[s].yield_list)) => mlb.loaded
    /\ ret.kind # "NameError"

\* C9 as stated: every value yielded lists the requested fields in the fixed
\* order of the specification, whatever the order of the request.
C9_CanonicalOrder ==
    \A s \in Insts :
        (ret.op = "next" /\ ret.self = s /\ ret.kind = "value"
            /\ Len(ti[s].yield_list) >= 2)
        => LET yl    == ti[s].yield_list
               canon == CanonicalOrder(yl)
               text  == source[ti[s].iter_.pos - 1]
           IN /\ Len(ret.val) = Len(canon)
              /\ \A k \in DOMAIN canon :
                    /\ FieldType(yl[k]) = FieldType(canon[k])
                    /\ ret.val[k] = ValueOf(<<canon[k]>>, text)

\* C9 amended: every value yielded lists the valid requested fields in the
\* order of the request (a single field is yielded alone).
C9_RequestOrder ==
    \A s \in Insts :
        (ret.op = "next" /\ ret.self = s /\ ret.kind = "value")
        => LET yl   == ti[s].yield_list
               text == source[ti[s].iter_.pos - 1]
           IN /\ Len(yl) >= 1
              /\ Len(yl) >= 2 => Len(ret.val) = Len(yl)
              /\ \A k \in DOMAIN yl :
                    (IF Len(yl) = 1 THEN ret.val ELSE ret.val[k])
                        = ValueOf(<<yl[k]>>, text)

\* a value whose two fields, requested against the fixed order, differ
C9_Witness ==
    /\ ret.op = "next" /\ ret.kind = "value"
    /\ ti[ret.self].yield_list = <<"clean_tweet", "raw_tweet">>
    /\ ret.val[1] # ret.val[2]
    /\ ret.val[2] = strip(source[ti[ret.self].iter_.pos - 1])

\* C10: clean is idempotent: clean(clean(x)) = clean(x) for every text x.
C10_Idempotent == tx.op = "clean clean" => tx.again = tx.out

\* the positions in source of the items that survive the skip filter
KeptPos ==
    SelectSeq([k \in 1..Len(source) |-> k], LAMBDA k : Qualifies(source[k]))

\* the number of items of an emitted batch: the rows of its label matrix
BatchSize(bt) == bt.out[2].shape[1]

\* the positions of the batches, one after the other
AllPos(batches) ==
    LET cat[k \in 0..Len(batches)] ==
            IF k = 0 THEN <<>> ELSE cat[k-1] \o batches[k].pos
    IN cat[Len(batches)]

\* the batch holds, row by row, the fields of the items at its positions
BatchHolds(bt) ==
    LET yl == ki.tweet_iterator.yield_list
        nx == Len(yl) - 1
    IN /\ Len(bt.out[1]) = nx
       /\ Len(bt.pos) = BatchSize(bt)
       /\ \A m \in 1..nx :
             /\ bt.out[1][m].shape[1] = BatchSize(bt)
             /\ \A j \in DOMAIN bt.pos :
                   bt.out[1][m].items[j] = ValueOf(<<yl[m]>>, source[bt.pos[j]])
       /\ \A j \in DOMAIN bt.pos :
             bt.out[2].rows[j-1] = ValueOf(<<"label">>, source[bt.pos[j]]).rows[0]

\* C1: with n >= 1 qualifying items and batch size b, a pass emits exactly
\* ceil(n/b) batches, all of b items but the last, which has the
\* n - b*(ceil(n/b)-1) items left; no batch is empty, and the batches of the
\* pass, one after the other, are the qualifying items in source order.
C1_OnePass ==
    LET n == Len(KeptPos)
        b == ki.batch_size
        c == (n + b - 1) \div b
    IN /\ \A k \in DOMAIN ki.batches :
             /\ BatchSize(ki.batches[k]) >= 1
             /\ BatchSize(ki.batches[k]) <= b
             /\ BatchHolds(ki.batches[k])
       /\ (ki.pc = "outer" /\ ki.pass >= 1 /\ n >= 1)
          => /\ Len(ki.batches) = c
             /\ \A k \in 1..c :
                   BatchSize(ki.batches[k]) = IF k < c THEN b ELSE n - b * (c - 1)
             /\ AllPos(ki.batches) = KeptPos

\* 3 qualifying items and batch size 2: a pass ended with batches of 2 and 1
C1_Witness ==
    /\ ki.pc = "outer" /\ ki.pass >= 1 /\ ki.batch_size = 2
    /\ Len(KeptPos) = 3 /\ Len(ki.batches) = 2
    /\ BatchSize(ki.batches[1]) = 2 /\ BatchSize(ki.batches[2]) = 1
    /\ ki.char /\ ki.chrd /\ ki.word

\* C2: when the generator goes on after the last batch of a pass the
\* accumulators are empty and the counter is 0; the next pass starts at the
\* first qualifying item; no batch holds items of two passes; every pass
\* emits the batches pass 1 emitted.
C2_PassBoundary ==
    /\ ki.pc = "outer"
       => /\ ki.output_charX = <<>> /\ ki.output_chrdX = <<>>
          /\ ki.output_wordX = <<>> /\ ki.output_y = <<>> /\ ki.i = 0
    /\ (ki.pc = "outer" /\ ki.pass >= 2) => ki.batches = ki.first
    /\ ki.batches # <<>> => ki.batches[1].pos[1] = KeptPos[1]
    /\ \A k \in DOMAIN ki.batches :
          \A j \in 1..(Len(ki.batches[k].pos) - 1) :
              ki.batches[k].pos[j] < ki.batches[k].pos[j+1]

\* the second pass ended with the two batches of the first, the last short
C2_Witness ==
    /\ ki.pc = "outer" /\ ki.pass >= 2
    /\ Len(ki.first) = 2 /\ ki.batches = ki.first
    /\ BatchSize(ki.batches[2]) < ki.batch_size

\* C3: every call of next() eventually returns, and none ever finds the
\* generator finished.
C3_Infinite ==
    /\ [](ki.kind # "StopIteration")
    /\ (ki.pending ~> ~ki.pending)

\* text[:n]
Truncated(text, n) == SubSeq(text, 1, Min(Len(text), n))

\* C11, as stated: when the text is longer than max_chars, its char matrix
\* is the char matrix of the text cut to its first max_chars characters, and
\* the matrix has max_chars rows
C11_Truncation ==
    (tx.op = "char" /\ Len(tx.text) > tx.max_chars)
        => /\ tx.out = text2mat(Truncated(tx.text, tx.max_chars), "char",
                                tx.max_chars, tx.max_words)
           /\ tx.out.shape[1] = tx.max_chars

\* C11, amended: when the lowercased and stripped text is longer than
\* max_chars, the char matrix of the text is the char matrix of that
\* lowercased and stripped text cut to its first max_chars characters; the
\* matrix of any text has max_chars rows, none written past the last one
C11_TruncationStripped ==
    tx.op = "char"
        => /\ tx.out.shape = <<tx.max_chars, Len(char_options)>>
           /\ DOMAIN tx.out.rows \subseteq 0..(tx.max_chars - 1)
           /\ Len(strip(lower(tx.text))) > tx.max_chars
                 => tx.out = text2mat(Truncated(strip(lower(tx.text)), tx.max_chars),
                                      "char", tx.max_chars, tx.max_words)

\* a text with leading whitespace whose stripped form is longer than
\* max_chars has been encoded, and its matrix has a row that is not zero
C11_Witness ==
    /\ tx.op = "char"
    /\ Len(tx.text) > 0 /\ tx.text[1] = " "
    /\ Len(strip(lower(tx.text))) > tx.max_chars
    /\ DOMAIN tx.out.rows # {}

\* C12: row i of the chrd matrix holds the character counts of the i-th
\* whitespace-delimited token of clean(text); rows past the tokens are zero
\* and tokens past max_words are left out
C12_ChrdFromClean ==
    tx.op = "chrd"
        => \E words \in {split(clean(tx.text))} :
              tx.out = Matrix(tx.max_words, Len(char_options),
                              [i \in DOMAIN words |-> ChrdRow(words[i])])

\* C13: every hashtag split_hashtags returns is '#' followed by one or more
\* lowercase letters or digits and nothing else
C13_HashtagShape ==
    tx.op = "split_hashtags"
        => \A k \in DOMAIN tx.out :
              /\ Len(tx.out[k]) >= 2
              /\ tx.out[k][1] = "#"
              /\ \A j \in 2..Len(tx.out[k]) :
                    tx.out[k][j] \in Range(ascii_lowercase) \cup Range(digits)

\* what a loop over the whole source gives for this configuration, whatever
\* was read before: nothing without a valid field, the NameError of a label
\* without encoder at the first item not skipped, else one value per item
\* not skipped
FullRun(self) ==
    IF Len(self.yield_list) = 0
        THEN [kind |-> "value", vals |-> <<>>]
    ELSE IF "label" \in Range(self.yield_list) /\ ~mlb.loaded
                /\ Kept(self.skip_nohashtag) # <<>>
        THEN [kind |-> "NameError", vals |-> <<>>]
    ELSE [kind |-> "value",
          vals |-> [k \in DOMAIN Kept(self.skip_nohashtag) |->
                      ValueOf(self.yield_list, Kept(self.skip_nohashtag)[k])]]

\* C14: a loop over a fresh iter(seq) starts at the first source item and
\* gives the whole sequence, wherever the pull cursor of next() stands (its
\* end included) and whatever len(), index or loop came before
C14_Restartable ==
    \A s \in Insts :
        (ret.op = "iter" /\ ret.self = s)
        => /\ ret.kind = FullRun(ti[s]).kind
           /\ ret.val = FullRun(ti[s]).vals

\* a loop that gave two values after next() had returned two values and
\* found the end, and after the length was computed
C14_Witness ==
    /\ ret.op = "iter" /\ ret.kind = "value" /\ Len(ret.val) = 2
    /\ ti[ret.self].nexts = 2
    /\ ti[ret.self].iter_.done
    /\ ti[ret.self].length = 2

\* C15: on one instance the length is computed at most once, a length of 0
\* and the pass of skip_nohashtag = TRUE included: every call of len(),
\* from an index, a slice or get_random too, after the first finds the
\* stored value, and len() returns that one value every time
C15_Memoized ==
    \A s \in Insts :
        /\ ti[s].computed <= 1
        /\ ti[s].computed = (IF ti[s].length = length_False THEN 0 ELSE 1)
        /\ ti[s].length # length_False => ti[s].length = LengthOf(ti[s])
        /\ (ret.op = "len" /\ ret.self = s) => ret.val = ti[s].length

\* seq[0] was refused on a sequence that skips and whose length is 0, over
\* a source that is not empty: len() was called by the test of the index
\* and again for the message, after next() had found the end
C15_Witness ==
    /\ ret.op = "getitem" /\ ret.kind = "IndexError" /\ ret.val = <<0, 0>>
    /\ ti[ret.self].skip_nohashtag
    /\ ti[ret.self].length = 0
    /\ ti[ret.self].iter_.done
    /\ Len(source) > 0

\* the operations of an instance other than next() and the constructor
ReadOps == {"len", "getitem", "getslice", "get_random", "iter"}

\* what next(seq) would return now: the result of resuming self.iter_
Upcoming(self) ==
    IF self.iter_.done THEN [kind |-> "StopIteration", val |-> <<>>]
    ELSE [kind |-> GenNext(self.skip_nohashtag, self.yield_list, self.iter_.pos).kind,
          val  |-> GenNext(self.skip_nohashtag, self.yield_list, self.iter_.pos).val]

\* C17: len(), an integer index, a slice, get_random and a loop over a fresh
\* iter(seq) leave the pull cursor of the instance where it was: next() would
\* return after them what it would have returned before them
C17_CursorFrame ==
    [][\A s \in Insts :
          (ret'.op \in ReadOps /\ ret'.self = s /\ ti[s].built)
          => /\ ti'[s].iter_ = ti[s].iter_
             /\ ti'[s].nexts = ti[s].nexts
             /\ Upcoming(ti[s])' = Upcoming(ti[s])]_vars

\* a slice with two values was read after next() had returned one value,
\* with another value still to come
C17_Witness ==
    /\ ret.op = "getslice" /\ ret.kind = "value" /\ Len(ret.val) = 2
    /\ ti[ret.self].nexts = 1
    /\ Upcoming(ti[ret.self]).kind = "value"

\* C18: for every sequence built, whatever its skip flag and its fields,
\* len(seq) is the number of values a loop over a fresh iter(seq) gives, and
\* seq[i] with 0 <= i < len(seq) returns an item
C18_LengthIsCount ==
    \A s \in Insts :
        /\ (ret.op = "len" /\ ret.self = s)
            => \E run \in {Collect(ti[s].skip_nohashtag, ti[s].yield_list, 1)} :
                  run.kind = "StopIteration" /\ ret.val = Len(run.vals)
        /\ (ret.op = "getitem" /\ ret.self = s
                /\ ret.arg >= 0 /\ ret.arg < ti[s].length)
            => ret.kind = "value"

\* the result of an operation on s is the one of s run alone: next() gives
\* the values of the whole sequence one after the other and then its end,
\* len() the length, and an index the value at that place
AsAlone(s) ==
    /\ ret.op = "next"
        => IF ret.kind = "value"
           THEN /\ ti[s].nexts <= Len(FullRun(ti[s]).vals)
                /\ ret.val = FullRun(ti[s]).vals[ti[s].nexts]
           ELSE /\ ti[s].nexts = Len(FullRun(ti[s]).vals)
                /\ ret.kind \in {"StopIteration", FullRun(ti[s]).kind}
    /\ ret.op = "len" => ret.val = LengthOf(ti[s])
    /\ ret.op = "getitem"
        => IF ret.kind = "value"
           THEN /\ ret.arg + 1 <= Len(FullRun(ti[s]).vals)
                /\ ret.val = FullRun(ti[s]).vals[ret.arg + 1]
           ELSE ret.kind = "IndexError" /\ ret.arg >= LengthOf(ti[s])

\* C16: with the next, len and index operations of two instances over one
\* list interleaved in any order, each instance gives the values it gives
\* when run alone; an operation changes nothing of the other instance, and
\* none changes the source, the encoder or the tables of the text functions
C16_Independent ==
    /\ [](\A s \in DOMAIN ti : ret.self = s => AsAlone(s))
    /\ [][/\ source' = source
          /\ mlb' = mlb
          /\ memo' = memo
          /\ \A t \in DOMAIN ti : t # ret'.self => ti'[t] = ti[t]]_vars

\* next() of one instance returned its second value after the other
\* instance, built with the other skip flag, had returned one value and
\* computed its length
C16_Witness ==
    /\ DOMAIN ti = PairInsts
    /\ ret.op = "next" /\ ret.kind = "value" /\ ret.self = "s2"
    /\ ti["s2"].nexts = 2
    /\ ti["s1"].nexts = 1
    /\ ti["s1"].length # length_False
    /\ ti["s1"].skip_nohashtag # ti["s2"].skip_nohashtag

====
